---- MODULE Spec2Model ----
(***************************************************************************)
(* LGBTQColocScraper (src/src/main.py): the run() pipeline                 *)
(*   scrape five sites -> sample fallback -> dedupe by url ->              *)
(*   per listing: analyze_with_openai, create_notion_page ->               *)
(*   send_telegram_notification -> build_html_email.                       *)
(* Python str is a TLA+ string; Optional[x] is <<>> (None) or <<x>>;       *)
(* a dict is a function from its keys; a call that may raise returns a     *)
(* record whose exc field says whether it raised.                          *)
(***************************************************************************)
EXTENDS Integers, Sequences, FiniteSets, TLC

(* ------------------------------ bounds -------------------------------- *)
\* listings the five index pages hold in total
MaxListings == 3
\* invocations of run() against the same Notion database
MaxRuns == 2

(* --------------------------- str helpers ------------------------------ *)
Min(a, b) == IF a <= b THEN a ELSE b

\* s[:n]
Slice(s, n) == SubSeq(s, 1, Min(Len(s), n))

\* s[i] as a one-character string
CharAt(s, i) == SubSeq(s, i, i)

UpperChars == <<"A", "B", "C", "D", "E", "F", "G", "H", "I", "J", "K", "L", "M",
                "N", "O", "P", "Q", "R", "S", "T", "U", "V", "W", "X", "Y", "Z">>

LowerChars == <<"a", "b", "c", "d", "e", "f", "g", "h", "i", "j", "k", "l", "m",
                "n", "o", "p", "q", "r", "s", "t", "u", "v", "w", "x", "y", "z">>

DigitChars == {"0", "1", "2", "3", "4", "5", "6", "7", "8", "9"}

LowerChar(c) ==
    IF \E k \in 1..26 : UpperChars[k] = c
    THEN LowerChars[CHOOSE k \in 1..26 : UpperChars[k] = c]
    ELSE c

\* halving keeps the evaluation shallow on long texts
RECURSIVE LowerRange(_, _, _)
LowerRange(s, lo, hi) ==
    IF lo > hi THEN ""
    ELSE IF lo = hi THEN LowerChar(CharAt(s, lo))
    ELSE LET mid == (lo + hi) \div 2
         IN  LowerRange(s, lo, mid) \o LowerRange(s, mid + 1, hi)

\* str.lower(), and the case folding of (?i), on ASCII text
Lower(s) == LowerRange(s, 1, Len(s))

\* int -> decimal text, as an f-string formats it
RECURSIVE IntToStr(_)
IntToStr(n) ==
    LET d == <<"0", "1", "2", "3", "4", "5", "6", "7", "8", "9">>
    IN  IF n < 0 THEN "-" \o IntToStr(0 - n)
        ELSE IF n < 10 THEN d[n + 1]
        ELSE IntToStr(n \div 10) \o d[(n % 10) + 1]

\* f"{x}" of an Optional[int]
OptIntToStr(o) == IF o = <<>> THEN "None" ELSE IntToStr(o[1])

(* ------------------------- re.search subset --------------------------- *)
\* A pattern is a sequence of items:
\*   lit  : the literal s
\*   opt  : one of alts, or nothing          ( x? , [..]? , (..)? )
\*   star : any run of characters of alts    ( \s* )
\*   alt  : exactly one of alts              ( (a|b|c) )
\*   wb   : a word boundary                  ( \b )
Lit(s) == [t |-> "lit", s |-> s, alts |-> {}]
Opt(alts) == [t |-> "opt", s |-> "", alts |-> alts]
Star(alts) == [t |-> "star", s |-> "", alts |-> alts]
Alt(alts) == [t |-> "alt", s |-> "", alts |-> alts]
WordBoundary == [t |-> "wb", s |-> "", alts |-> {}]

\* \s
Whitespace == {" ", "\t", "\n", "\r", "\f"}

\* [-\s]
DashOrSpace == {"-"} \cup Whitespace

\* \w
IsWordChar(c) ==
    \/ \E k \in 1..26 : c = LowerChars[k] \/ c = UpperChars[k]
    \/ c \in DigitChars
    \/ c = "_"

StartsAt(text, pos, s) ==
    /\ pos + Len(s) - 1 <= Len(text)
    /\ SubSeq(text, pos, pos + Len(s) - 1) = s

AtWordBoundary(text, pos) ==
    LET before == pos > 1 /\ IsWordChar(CharAt(text, pos - 1))
        after == pos <= Len(text) /\ IsWordChar(CharAt(text, pos))
    IN  before # after

\* the positions where items k.. of pat can end when they start at pos
RECURSIVE MatchEnds(_, _, _, _)
MatchEnds(text, pat, k, pos) ==
    IF k > Len(pat) THEN {pos}
    ELSE LET it == pat[k] IN
         CASE it.t = "lit" ->
                IF StartsAt(text, pos, it.s)
                THEN MatchEnds(text, pat, k + 1, pos + Len(it.s)) ELSE {}
           [] it.t = "opt" ->
                UNION ({MatchEnds(text, pat, k + 1, pos)} \cup
                       {MatchEnds(text, pat, k + 1, pos + Len(a)) :
                            a \in {b \in it.alts : StartsAt(text, pos, b)}})
           [] it.t = "star" ->
                UNION {MatchEnds(text, pat, k + 1, q) :
                         q \in {r \in pos..(Len(text) + 1) :
                                  \A j \in pos..(r - 1) : CharAt(text, j) \in it.alts}}
           [] it.t = "alt" ->
                UNION {MatchEnds(text, pat, k + 1, pos + Len(a)) :
                         a \in {b \in it.alts : StartsAt(text, pos, b)}}
           [] it.t = "wb" ->
                IF AtWordBoundary(text, pos)
                THEN MatchEnds(text, pat, k + 1, pos) ELSE {}

\* re.search(p, text) is not None, for a (?i) pattern written in lower case
Search(pat, text) ==
    LET t == Lower(text)
    IN  \E pos \in 1..(Len(t) + 1) : MatchEnds(t, pat, 1, pos) # {}

(* ------------------------- __init__ (55-78) --------------------------- *)
lgbtq_patterns == <<
    <<Lit("lgbt"), Opt({"q"}), Opt({"+"})>>,
    <<Lit("queer"), Opt(DashOrSpace), Lit("friendly")>>,
    <<Lit("queer"), Star(Whitespace), Lit("house"), Opt({"hold"})>>,
    <<Lit("gay"), Opt(DashOrSpace), Lit("share")>>,
    <<Lit("gay"), Opt(DashOrSpace), Lit("friendly")>>,
    <<Lit("lesbian"), Opt(DashOrSpace), Lit("friendly")>>,
    <<Lit("trans"), Opt(DashOrSpace), Lit("friendly")>>,
    <<Lit("rainbow"), Star(Whitespace), Alt({"home", "house", "household"})>> >>

\* the dict keeps insertion order: Australian, then Brazilian
\* (brazil(ian)?s? and portugu[e]s are written out as their alternatives;
\*  the accented alternative of portugu[e^]s is outside the ASCII texts used)
nationality_patterns == <<
    [name |-> "Australian",
     p |-> <<WordBoundary,
             Alt({"aussie", "aussies", "australian", "australians"}),
             WordBoundary>>],
    [name |-> "Brazilian",
     p |-> <<WordBoundary,
             Alt({"brazil", "brazils", "brazilian", "brazilians",
                  "portuguese", "portugues"}),
             WordBoundary>>] >>

target_suburbs == <<"Surry Hills", "Darlinghurst", "Newtown">>

InList(v, list) == \E k \in 1..Len(list) : list[k] = v

(* --------------------------- utils (84-98) ---------------------------- *)
detect_lgbtq_content(text) ==
    \E k \in 1..Len(lgbtq_patterns) : Search(lgbtq_patterns[k], text)

RECURSIVE NationalitiesFrom(_, _)
NationalitiesFrom(text, k) ==
    IF k > Len(nationality_patterns) THEN <<>>
    ELSE (IF Search(nationality_patterns[k].p, text)
          THEN <<nationality_patterns[k].name>> ELSE <<>>)
         \o NationalitiesFrom(text, k + 1)

extract_nationalities(text) == NationalitiesFrom(text, 1)

(* --------------------------- Listing (42-51) -------------------------- *)
Listing(title, description, url, price_per_week, suburb, date_posted, source, image_url) ==
    [title |-> title, description |-> description, url |-> url,
     price_per_week |-> price_per_week, suburb |-> suburb,
     date_posted |-> date_posted, source |-> source, image_url |-> image_url]

\* datetime.now().strftime("%Y-%m-%d")
Today == "2026-01-01"

UrlA == "https://www.gayshare.com.au/rooms/1"
UrlB == "https://www.gumtree.com.au/s-ad/2"

\* the five adapters, in the order run() calls them (553-559)
Scrapers == <<"scrape_gayshare", "scrape_gumtree", "scrape_flatmates",
              "scrape_flatmate_finders", "scrape_roomgo">>

(* ------------------ _price_to_int, _first_text (94-101) --------------- *)
\* the bounds of the pattern \d{2,4}
PRICE_MIN_DIGITS == 2
PRICE_MAX_DIGITS == 4

\* the slip of searching the text as it stands
keep_commas(text) == text

\* text.replace(",", "")
RECURSIVE remove_commas(_)
remove_commas(text) ==
    IF text = "" THEN ""
    ELSE (IF CharAt(text, 1) = "," THEN "" ELSE CharAt(text, 1))
         \o remove_commas(SubSeq(text, 2, Len(text)))

DigitValue(c) == CHOOSE v \in 0..9 : IntToStr(v) = c

\* int() of decimal digits
RECURSIVE int(_)
int(s) ==
    IF s = "" THEN 0
    ELSE int(SubSeq(s, 1, Len(s) - 1)) * 10 + DigitValue(CharAt(s, Len(s)))

\* how many digits stand at s[i:]
RECURSIVE DigitRun(_, _)
DigitRun(s, i) ==
    IF i <= Len(s) /\ CharAt(s, i) \in DigitChars THEN 1 + DigitRun(s, i + 1) ELSE 0

\* re.search(r"(\d{2,4})", s).group(1): the leftmost place where two digits
\* start, taken greedily up to four; <<>> when there is no match
price_match(s) ==
    LET starts == {i \in 1..Len(s) : DigitRun(s, i) >= PRICE_MIN_DIGITS}
    IN  IF starts = {} THEN <<>>
        ELSE LET i == CHOOSE i \in starts : \A j \in starts : i <= j
             IN  <<SubSeq(s, i, i + Min(DigitRun(s, i), PRICE_MAX_DIGITS) - 1)>>

\* 94-98
_price_to_int(text) ==
    IF text = "" THEN <<>>
    ELSE LET m == price_match(remove_commas(text))
         IN  IF m = <<>> THEN <<>> ELSE <<int(m[1])>>

(* --------------------------- adapters (303-530) ----------------------- *)
MAX_PER_SITE == 8
HTTP_OK == 200

\* Python truth of an Optional[str], and `a or b` on them and on str
Truthy(v) == v # <<>> /\ v[1] # ""
Or(a, b) == IF Truthy(a) THEN a ELSE b
StrOr(a, b) == IF a # "" THEN a ELSE b

\* str.startswith
StartsWith(s, prefix) == Len(s) >= Len(prefix) /\ SubSeq(s, 1, Len(prefix)) = prefix

\* What differs between the five adapters: the origin put before a link,
\* the title of a card without one (the source's em dash is written "--"),
\* the source name, and whether the image is read from data-src first
\* (gumtree 382, flatmates 427, flatmate finders 471, roomgo 513) or from
\* src alone (gayshare 336-339).
Sites == <<
    [origin |-> "https://www.gayshare.com.au", placeholder |-> "Room -- Gay Share",
     source |-> "Gay Share", data_src |-> FALSE],
    [origin |-> "https://www.gumtree.com.au", placeholder |-> "Room -- Gumtree",
     source |-> "Gumtree", data_src |-> TRUE],
    [origin |-> "https://flatmates.com.au", placeholder |-> "Room -- Flatmates",
     source |-> "Flatmates", data_src |-> TRUE],
    [origin |-> "https://www.flatmatefinders.com.au",
     placeholder |-> "Room -- Flatmate Finders",
     source |-> "Flatmate Finders", data_src |-> TRUE],
    [origin |-> "https://au.roomgo.net", placeholder |-> "Room -- Roomgo",
     source |-> "Roomgo", data_src |-> TRUE] >>

\* What requests.get and BeautifulSoup can yield for an index page:
\*   exc          SESSION.get raised
\*   status_code  of the response
\*   parse_exc    BeautifulSoup(r.text, "html.parser") raised
\*   select_exc   a call on the parsed page (select, find, get_text) raised
\*   cards        what soup.select matches, each card as what the finds in it
\*                give: href (of the first <a href>, <<>> without one), heading
\*                (h2/h3 text), a_text, p, price, suburb ("" when the node is
\*                missing or empty), img (<<>> or the src and data-src of it)
Fetch(exc, status_code, parse_exc, select_exc, cards) ==
    [exc |-> exc, status_code |-> status_code, parse_exc |-> parse_exc,
     select_exc |-> select_exc, cards |-> cards]

NetworkError == Fetch(TRUE, 0, FALSE, FALSE, <<>>)
Refused == Fetch(FALSE, 403, FALSE, FALSE, <<>>)
Unparseable == Fetch(FALSE, HTTP_OK, TRUE, FALSE, <<>>)
Page(cards) == Fetch(FALSE, HTTP_OK, FALSE, FALSE, cards)
BrokenPage(cards) == Fetch(FALSE, HTTP_OK, FALSE, TRUE, cards)

Card(href, heading, a_text, p, price, suburb, img) ==
    [href |-> href, heading |-> heading, a_text |-> a_text, p |-> p,
     price |-> price, suburb |-> suburb, img |-> img]

Img(src, data_src) == <<[src |-> src, data_src |-> data_src]>>

\* 303-312: the parsed page, or None
_safe_get(fetch) ==
    IF fetch.exc THEN <<>>
    ELSE IF fetch.status_code # HTTP_OK THEN <<>>
    ELSE IF fetch.parse_exc THEN <<>>
    ELSE <<[cards |-> fetch.cards, select_exc |-> fetch.select_exc]>>

\* 327-329
href_of(site, href) == IF StartsWith(href, "/") THEN site.origin \o href ELSE href

\* 334-339 and 380-385
img_url_of(site, img) ==
    LET found == IF img = <<>> THEN <<>>
                 ELSE IF site.data_src THEN Or(img[1].data_src, img[1].src)
                 ELSE IF Truthy(img[1].src) THEN img[1].src
                 ELSE <<>>
    IN  IF Truthy(found) /\ StartsWith(found[1], "//")
        THEN <<"https:" \o found[1]>>
        ELSE found

\* 331-354: the record of a card that has a link
card_listing(site, c) ==
    Listing(StrOr(StrOr(c.heading, c.a_text), site.placeholder),
            StrOr(c.p, ""),
            href_of(site, c.href[1]),
            _price_to_int(c.price),
            StrOr(c.suburb, "Sydney"),
            Today, site.source,
            img_url_of(site, c.img))

\* the slip of walking every card of the page
all_cards(cards) == cards

\* cards[:MAX_PER_SITE]
first_cards(cards) == Slice(cards, MAX_PER_SITE)

\* 323-354: the loop over the cards; a card without a link is passed over
RECURSIVE extract(_, _)
extract(site, cards) ==
    IF cards = <<>> THEN <<>>
    ELSE (IF Head(cards).href = <<>> THEN <<>>
          ELSE <<card_listing(site, Head(cards))>>)
         \o extract(site, Tail(cards))

\* 314-530: adapter k on what its page yields; nothing between
\* _safe_get and the return catches an exception
scrape(k, fetch) ==
    LET soup == _safe_get(fetch)
    IN  IF soup = <<>> THEN [exc |-> FALSE, ret |-> <<>>]
        ELSE IF soup[1].select_exc THEN [exc |-> TRUE, ret |-> <<>>]
        ELSE [exc |-> FALSE, ret |-> extract(Sites[k], first_cards(soup[1].cards))]

\* what each index page can hold: one card per site; the same room is
\* advertised on several sites under an absolute link, with another title
SiteCard == <<
    Card(<<"/rooms/1">>, "Room in Newtown", "View", "Queer-friendly home",
         "$320 pw", "Newtown", <<>>),
    Card(<<"/s-ad/2">>, "", "Gayshare flat", "",
         "$1,250", "Bondi", Img(<<>>, <<"//img.gumtree.com.au/2.jpg">>)),
    Card(<<UrlA>>, "Spare room", "", "Quiet street",
         "", "Darlinghurst", <<>>),
    Card(<<UrlB>>, "Shared room", "", "",
         "$0.00", "", Img(<<>>, <<>>)),
    Card(<<UrlA>>, "LGBTQ+ house", "", "Brazilian and Aussie flatmates",
         "From $280", "Surry Hills", <<>>) >>

SiteListing == [k \in 1..Len(Sites) |-> scrape(k, Page(<<SiteCard[k]>>)).ret[1]]

(* -------------------- scrape_sample_listings (532-545) ---------------- *)
SAMPLE_PRICE_MIN == 350
SAMPLE_PRICE_MAX == 480

SampleUrl == "https://flatmates.com.au/listing/12345"

\* random.randint(350, 480): the two ends of the range stand for it
SamplePrices == {SAMPLE_PRICE_MIN, SAMPLE_PRICE_MAX}

scrape_sample_listings(price) == <<
    Listing("Queer-friendly ensuite in Surry Hills",
            "Spacious room in a welcoming LGBTQ+ household, near Oxford Street. Bills included, fully furnished.",
            SampleUrl, <<price>>, "Surry Hills", Today, "Flatmates",
            <<"https://images.unsplash.com/photo-1522708323590-d24dbb6b0267?w=800">>) >>

Urls == {UrlA, UrlB, SampleUrl}

(* --------------------- analyze_with_openai (104-159) ------------------ *)
\* What requests.post and the two JSON parsers can yield:
\*   exc          requests.post raised (connection error, timeout)
\*   status_code  the HTTP status
\*   parses       res.json(), data["choices"][0]["message"]["content"] and
\*                json.loads all succeed
\*   content      the value json.loads returns
NoContent == <<>>

GoodContent ==
    [summary |-> "Bright room near King Street.", lgbtq |-> TRUE,
     nationalities |-> <<"Australian">>, tags |-> <<"furnished">>,
     score |-> 70, reasons |-> <<"explicitly inclusive">>]

\* a reply that follows the schema but not the 0-100 range
OffScaleContent ==
    [summary |-> "Ordinary room.", lgbtq |-> FALSE,
     nationalities |-> <<>>, tags |-> <<>>,
     score |-> 150, reasons |-> <<"no signal">>]

Without(d, key) == [k \in DOMAIN d \ {key} |-> d[k]]

OpenAIContents ==
    {GoodContent, OffScaleContent,
     Without(GoodContent, "summary"), Without(GoodContent, "score")}


OpenAIResponses ==
    {[exc |-> TRUE, status_code |-> 0, parses |-> FALSE, content |-> NoContent],
     [exc |-> FALSE, status_code |-> 500, parses |-> FALSE, content |-> NoContent],
     [exc |-> FALSE, status_code |-> HTTP_OK, parses |-> FALSE, content |-> NoContent]}
    \cup {[exc |-> FALSE, status_code |-> HTTP_OK, parses |-> TRUE, content |-> c] :
            c \in OpenAIContents}

SCORE_BASE == 50
SCORE_LGBTQ == 25
SCORE_SUBURB == 10
SCORE_MIN == 0
SCORE_MAX == 100

Max(a, b) == IF a >= b THEN a ELSE b

\* the slip of leaving the suburb bonus out
fallback_score_no_suburb(lgbtq, suburb) ==
    Min(SCORE_MAX, Max(SCORE_MIN, SCORE_BASE + (IF lgbtq THEN SCORE_LGBTQ ELSE 0)))

\* lines 149-151 and the clamp of line 157
fallback_score(lgbtq, suburb) ==
    LET score == SCORE_BASE + (IF lgbtq THEN SCORE_LGBTQ ELSE 0)
                 + (IF InList(suburb, target_suburbs) THEN SCORE_SUBURB ELSE 0)
    IN  Min(SCORE_MAX, Max(SCORE_MIN, score))

\* lines 146-159
fallback_analysis(listing) ==
    LET text == Lower(listing.title \o " " \o listing.description)
        lgbtq == detect_lgbtq_content(text)
    IN  [summary |-> "Flatshare in " \o listing.suburb \o " for $"
                     \o OptIntToStr(listing.price_per_week) \o "/week.",
         lgbtq |-> lgbtq,
         nationalities |-> extract_nationalities(text),
         tags |-> <<>>,
         score |-> fallback_score(lgbtq, listing.suburb),
         reasons |-> <<"Fallback analysis used">>]

\* the try block (122-144): the reply is returned as parsed, or nothing is
service_analysis(res) ==
    IF ~res.exc /\ res.status_code = HTTP_OK /\ res.parses
    THEN <<res.content>> ELSE <<>>

\* the dicts run() passes to analyze_with_openai (584-588)
AnalysisInputs ==
    {[title |-> ad.title, description |-> ad.description,
      price_per_week |-> ad.price_per_week, suburb |-> ad.suburb] :
        ad \in {SiteListing[k] : k \in 1..Len(SiteListing)}
               \cup {scrape_sample_listings(p)[1] : p \in SamplePrices}}

\* fallback_analysis, evaluated once for each listing of the model
FallbackOf == [listing \in AnalysisInputs |-> fallback_analysis(listing)]

analyze_with_openai(listing, res) ==
    IF service_analysis(res) # <<>>
    THEN service_analysis(res)[1]
    ELSE FallbackOf[listing]

(* --------------------- create_notion_page (162-214) ------------------- *)
TITLE_LIMIT == 100
DESCRIPTION_LIMIT == 1800
SUMMARY_LIMIT == 500

NotionResponses ==
    {[exc |-> TRUE, status_code |-> 0],
     [exc |-> FALSE, status_code |-> HTTP_OK],
     [exc |-> FALSE, status_code |-> 400]}

\* analysis["summary"] and analysis["score"] are subscripts: a missing key
\* raises KeyError while props is built, before the try block
PropsRaise(analysis) == ~({"summary", "score"} \subseteq DOMAIN analysis)

\* analysis.get("nationalities", [])
GetNationalities(analysis) ==
    IF "nationalities" \in DOMAIN analysis THEN analysis["nationalities"] ELSE <<>>

page_data(listing, analysis) ==
    [title |-> Slice(listing.title, TITLE_LIMIT),
     source |-> listing.source,
     publish_date |-> listing.date_posted,
     location |-> listing.suburb,
     rent_week |-> listing.price_per_week,
     description |-> Slice(listing.description, DESCRIPTION_LIMIT),
     summary |-> Slice(analysis["summary"], SUMMARY_LIMIT),
     link |-> listing.url,
     score |-> analysis["score"],
     nationalities |-> GetNationalities(analysis),
     status |-> "Not started",
     image |-> listing.image_url,
     cover |-> listing.image_url]

\* exc: the call raised; ret: its return value; request: the page POSTed, if any
create_notion_page(listing, analysis, nres) ==
    IF PropsRaise(analysis)
    THEN [exc |-> TRUE, ret |-> FALSE, request |-> <<>>]
    ELSE [exc |-> FALSE,
          ret |-> ~nres.exc /\ nres.status_code = HTTP_OK,
          request |-> <<page_data(listing, analysis)>>]

(* ----------------- send_telegram_notification (217-235) --------------- *)
TELEGRAM_TITLE_LIMIT == 60
TELEGRAM_MAX_ADS == 5

telegram_message(batch) ==
    [count |-> Len(batch),
     ads |-> [k \in 1..Min(Len(batch), TELEGRAM_MAX_ADS) |->
                [title |-> Slice(batch[k].title, TELEGRAM_TITLE_LIMIT),
                 suburb |-> batch[k].suburb,
                 price |-> OptIntToStr(batch[k].price_per_week),
                 url |-> batch[k].url]]]

\* the requests sent: none without a token or without listings (218-219);
\* otherwise one POST of the message to the chat id, set or not (229-233)
send_telegram_notification(token, chat_id, batch) ==
    IF token = <<>> \/ batch = <<>> THEN <<>>
    ELSE <<[chat_id |-> chat_id, text |-> telegram_message(batch)]>>

(* ----------------------- build_html_email (238-300) ------------------- *)
EMAIL_DESCRIPTION_LIMIT == 220
EMAIL_MAX_ADS == 12

\* if ad.get("price_per_week"): None and 0 both leave the price out
build_html_email(batch) ==
    [k \in 1..Len(batch) |->
       [img |-> batch[k].image_url,
        url |-> batch[k].url,
        title |-> batch[k].title,
        suburb |-> batch[k].suburb,
        price |-> IF batch[k].price_per_week # <<>> /\ batch[k].price_per_week[1] # 0
                  THEN "$" \o IntToStr(batch[k].price_per_week[1]) \o "/week"
                  ELSE "",
        source |-> batch[k].source,
        description |-> Slice(batch[k].description, EMAIL_DESCRIPTION_LIMIT)]]

(* ------------------------------ run (548-622) ------------------------- *)
VARIABLES
    pc,              \* where run() is
    run,             \* how many times run() was started
    fn,              \* index in Scrapers of the adapter called next
    all_listings,    \* run's all_listings
    adapter_out,     \* what the adapters returned, concatenated in call order
    scrape_log,      \* the calls of the adapter loop in progress: page, outcome
    listings,        \* run's listings: the deduplicated sequence
    idx,             \* index in listings of the listing processed next
    attempted,       \* urls logged "Analyzing", in order
    errors,          \* urls logged "Processing error", in order
    step,            \* the last loop iteration: listing, response, analysis, create call
    processed,       \* run's processed: the output batch
    created,         \* url and score of each create_notion_page that returned True
    notion,          \* the Notion database: url -> number of pages with that Link
    telegram_token,  \* TELEGRAM_BOT_TOKEN: <<>> when unset
    telegram_chat_id, \* TELEGRAM_CHAT_ID: <<>> when unset
    telegram_calls,  \* calls of send_telegram_notification in this run
    telegram_sent,   \* messages POSTed to Telegram in this run
    html,            \* <<>> or <<the rows of the digest built in this run>>
    email_written    \* out/latest_email.html was written in this run

vars == <<pc, run, fn, all_listings, adapter_out, scrape_log, listings, idx, attempted,
          errors, step, processed, created, notion, telegram_token, telegram_chat_id,
          telegram_calls, telegram_sent, html, email_written>>

NoStep == [ad |-> <<>>, res |-> <<>>, analysis |-> <<>>, create |-> <<>>]

\* the locals of a run() that has just been entered
RunStart ==
    /\ pc = "scrape"
    /\ fn = 1
    /\ all_listings = <<>>
    /\ adapter_out = <<>>
    /\ scrape_log = <<>>
    /\ listings = <<>>
    /\ idx = 1
    /\ attempted = <<>>
    /\ errors = <<>>
    /\ step = NoStep
    /\ processed = <<>>
    /\ created = <<>>
    /\ telegram_calls = 0
    /\ telegram_sent = <<>>
    /\ html = <<>>
    /\ email_written = FALSE

Init ==
    /\ RunStart
    /\ run = 1
    /\ notion = [u \in Urls |-> 0]
    /\ telegram_token \in {<<>>, <<"123:abc">>}
    /\ telegram_chat_id \in {<<>>, <<"42">>}

\* what the index page of adapter k can yield: no response, a refusal, a
\* page whose markup makes a call on it raise, or a page with the card of
\* the site, while the pages hold MaxListings cards in total
SitePages(k) ==
    {NetworkError, Refused, BrokenPage(<<SiteCard[k]>>)}
    \cup (IF Len(adapter_out) < MaxListings THEN {Page(<<SiteCard[k]>>)} ELSE {Page(<<>>)})

\* every page the loop can meet
LoopPages(k) ==
    {NetworkError, Refused, BrokenPage(<<SiteCard[k]>>), Page(<<SiteCard[k]>>), Page(<<>>)}

\* one call of adapter k, as the loop's log lines tell it
call(k, page) ==
    LET r == scrape(k, page)
    IN  [fn |-> Scrapers[k], page |-> page, exc |-> r.exc, ret |-> r.ret]

\* the calls of the loop, worked out once
CallOf == [k \in 1..Len(Scrapers) |-> [page \in LoopPages(k) |-> call(k, page)]]

\* the slip of putting what an adapter returns in front
extend_front(all, c) == IF c.exc THEN all ELSE c.ret \o all

\* 560-564: all_listings.extend(fn()), or the except clause when fn() raised
extend(all, c) == IF c.exc THEN all ELSE all \o c.ret

\* 553-564: one turn of the adapter loop
Scrape ==
    /\ pc = "scrape"
    /\ \E page \in SitePages(fn) :
         LET c == CallOf[fn][page]
         IN  /\ all_listings' = extend(all_listings, c)
             /\ adapter_out' = adapter_out \o c.ret
             /\ scrape_log' = Append(scrape_log, c)
    /\ fn' = fn + 1
    /\ pc' = IF fn = Len(Scrapers) THEN "sample" ELSE "scrape"
    /\ UNCHANGED <<run, listings, idx, attempted, errors, step, processed, created, notion,
                   telegram_token, telegram_chat_id, telegram_calls, telegram_sent, html,
                   email_written>>

\* the slip of extending with the sample set whatever was scraped
with_sample_always(all, sample) == all \o sample

\* 566-568
with_sample(all, sample) == IF all = <<>> THEN sample ELSE all

SampleFallback ==
    /\ pc = "sample"
    /\ \E price \in SamplePrices :
         all_listings' = with_sample(all_listings, scrape_sample_listings(price))
    /\ scrape_log' = <<>>
    /\ pc' = "dedupe"
    /\ UNCHANGED <<run, fn, adapter_out, listings, idx, attempted, errors, step, processed,
                   created, notion, telegram_token, telegram_chat_id, telegram_calls,
                   telegram_sent, html, email_written>>

\* the slip uniq[ad.url] = ad: the key keeps its place, the last value wins
setdefault_overwrites(uniq, ad) ==
    IF \E k \in 1..Len(uniq) : uniq[k].url = ad.url
    THEN [k \in 1..Len(uniq) |-> IF uniq[k].url = ad.url THEN ad ELSE uniq[k]]
    ELSE Append(uniq, ad)

\* uniq.setdefault(ad.url, ad) on a dict that keeps insertion order
setdefault(uniq, ad) ==
    IF \E k \in 1..Len(uniq) : uniq[k].url = ad.url THEN uniq ELSE Append(uniq, ad)

RECURSIVE DedupeFrom(_, _, _)
DedupeFrom(all, k, uniq) ==
    IF k > Len(all) THEN uniq ELSE DedupeFrom(all, k + 1, setdefault(uniq, all[k]))

\* 571-574
dedupe(all) == DedupeFrom(all, 1, <<>>)

Dedupe ==
    /\ pc = "dedupe"
    /\ listings' = dedupe(all_listings)
    /\ processed' = <<>>
    /\ idx' = 1
    /\ pc' = "process"
    /\ UNCHANGED <<run, fn, all_listings, adapter_out, scrape_log, attempted, errors, step,
                   created, notion, telegram_token, telegram_chat_id, telegram_calls,
                   telegram_sent, html, email_written>>

\* 584-588
analysis_input(ad) ==
    [title |-> ad.title, description |-> ad.description,
     price_per_week |-> ad.price_per_week, suburb |-> ad.suburb]

\* 590-599
payload(ad) ==
    [title |-> ad.title, description |-> ad.description, url |-> ad.url,
     price_per_week |-> ad.price_per_week, suburb |-> ad.suburb,
     date_posted |-> ad.date_posted, source |-> ad.source,
     image_url |-> ad.image_url]

\* {**payload, **{"score": analysis["score"]}}
batch_entry(ad, analysis) ==
    [title |-> ad.title, description |-> ad.description, url |-> ad.url,
     price_per_week |-> ad.price_per_week, suburb |-> ad.suburb,
     date_posted |-> ad.date_posted, source |-> ad.source,
     image_url |-> ad.image_url, score |-> analysis["score"]]

\* the slip of taking every listing whose step did not raise
joins_batch_always(create) == ~create.exc

\* 600: if self.create_notion_page(payload, analysis)
joins_batch(create) == ~create.exc /\ create.ret

\* the slip of a handler that lets the error out of the loop
caught_in_loop_never(exc) == FALSE

\* 603: except Exception catches whatever the body of the loop raised
caught_in_loop(exc) == TRUE

\* 579-604: one turn of the per-listing loop
ProcessListing ==
    /\ pc = "process"
    /\ idx <= Len(listings)
    /\ \E res \in OpenAIResponses :
         LET ad == listings[idx]
             analysis == analyze_with_openai(analysis_input(ad), res)
         IN  \E nres \in (IF PropsRaise(analysis) THEN {[exc |-> TRUE, status_code |-> 0]}
                          ELSE NotionResponses) :
               LET create == create_notion_page(payload(ad), analysis, nres)
                   stored == create.request # <<>> /\ ~nres.exc
                             /\ nres.status_code = HTTP_OK
               IN  /\ attempted' = Append(attempted, ad.url)
                   /\ errors' = IF create.exc /\ caught_in_loop(create.exc)
                                THEN Append(errors, ad.url) ELSE errors
                   /\ step' = [ad |-> <<ad>>, res |-> <<res>>,
                               analysis |-> <<analysis>>,
                               create |-> <<[exc |-> create.exc, ret |-> create.ret,
                                             request |-> create.request,
                                             nres |-> IF create.request = <<>>
                                                      THEN <<>> ELSE <<nres>>]>>]
                   /\ notion' = IF stored
                                THEN [notion EXCEPT ![ad.url] = @ + 1] ELSE notion
                   /\ processed' = IF joins_batch(create)
                                   THEN Append(processed, batch_entry(ad, analysis))
                                   ELSE processed
                   /\ created' = IF ~create.exc /\ create.ret
                                 THEN Append(created, [url |-> ad.url,
                                                       score |-> analysis["score"]])
                                 ELSE created
                   /\ IF create.exc /\ ~caught_in_loop(create.exc)
                      THEN pc' = "crashed" /\ idx' = idx
                      ELSE pc' = "process" /\ idx' = idx + 1
    /\ UNCHANGED <<run, fn, all_listings, adapter_out, scrape_log, listings,
                   telegram_token, telegram_chat_id, telegram_calls, telegram_sent,
                   html, email_written>>

\* 607: if processed
notify_guard(batch) == batch # <<>>

\* 606-608: the loop is over; a failed POST is logged and changes nothing
Notify ==
    /\ pc = "process"
    /\ idx > Len(listings)
    /\ IF notify_guard(processed)
       THEN /\ telegram_calls' = telegram_calls + 1
            /\ telegram_sent' = telegram_sent
                                \o send_telegram_notification(telegram_token, telegram_chat_id,
                                                              processed)
       ELSE UNCHANGED <<telegram_calls, telegram_sent>>
    /\ pc' = "email"
    /\ UNCHANGED <<run, fn, all_listings, adapter_out, scrape_log, listings, idx,
                   attempted, errors, step, processed, created, notion, telegram_token,
                   telegram_chat_id, html, email_written>>

\* 610-622: written: os.makedirs, open and write did not raise
Email ==
    /\ pc = "email"
    /\ IF processed # <<>>
       THEN /\ html' = <<build_html_email(Slice(processed, EMAIL_MAX_ADS))>>
            /\ \E written \in BOOLEAN : email_written' = written
       ELSE UNCHANGED <<html, email_written>>
    /\ pc' = "done"
    /\ UNCHANGED <<run, fn, all_listings, adapter_out, scrape_log, listings, idx,
                   attempted, errors, step, processed, created, notion, telegram_token,
                   telegram_chat_id, telegram_calls, telegram_sent>>

\* 625-627: the scheduled job starts again; the database keeps its pages
NewRun ==
    /\ pc = "done"
    /\ run < MaxRuns
    /\ run' = run + 1
    /\ pc' = "scrape"
    /\ fn' = 1
    /\ all_listings' = <<>>
    /\ adapter_out' = <<>>
    /\ scrape_log' = <<>>
    /\ listings' = <<>>
    /\ idx' = 1
    /\ attempted' = <<>>
    /\ errors' = <<>>
    /\ step' = NoStep
    /\ processed' = <<>>
    /\ created' = <<>>
    /\ telegram_calls' = 0
    /\ telegram_sent' = <<>>
    /\ html' = <<>>
    /\ email_written' = FALSE
    /\ UNCHANGED <<notion, telegram_token, telegram_chat_id>>

Next == Scrape \/ SampleFallback \/ Dedupe \/ ProcessListing \/ Notify \/ Email \/ NewRun

Spec == Init /\ [][Next]_vars

(* ------------------ the adapters on their own (303-530) --------------- *)
\* cards of the longest index page: one more than MAX_PER_SITE
MaxCards == 9

BaseCard ==
    Card(<<"/rooms/7">>, "Sunny room", "View listing", "Near the park",
         "$250 pw", "Glebe", Img(<<"https://cdn.example.com/7.jpg">>, <<>>))

\* a card that has its link and nothing else
OnlyLink == Card(<<"/rooms/8">>, "", "", "", "", "", <<>>)

NoLink == [BaseCard EXCEPT !.href = <<>>]

Hrefs == {"https://example.com/rooms/7", "//cdn.example.com/rooms/7", "rooms/7"}

PriceTexts == {"", "Ask", "$1,250/week", "$0.00", "12345", "5 rooms from $85", "$9"}

Imgs == {<<>>, Img(<<>>, <<>>),
         Img(<<"//cdn.example.com/7.jpg">>, <<>>),
         Img(<<"/img/7.jpg">>, <<>>),
         Img(<<"">>, <<"//cdn.example.com/lazy.jpg">>),
         Img(<<"/img/7.jpg">>, <<"https://cdn.example.com/lazy.jpg">>)}

\* the base card with one of its nodes missing or written another way
Cards ==
    {BaseCard, OnlyLink, NoLink,
     [BaseCard EXCEPT !.heading = ""],
     [BaseCard EXCEPT !.heading = "", !.a_text = ""],
     [BaseCard EXCEPT !.p = ""],
     [BaseCard EXCEPT !.suburb = ""]}
    \cup {[BaseCard EXCEPT !.href = <<h>>] : h \in Hrefs}
    \cup {[BaseCard EXCEPT !.price = t] : t \in PriceTexts}
    \cup {[BaseCard EXCEPT !.img = i] : i \in Imgs}

\* MaxCards cards, the last of them the bare one
LongPage == Page([i \in 1..MaxCards |-> IF i < MaxCards THEN BaseCard ELSE OnlyLink])

Pages ==
    {NetworkError, Refused, Fetch(FALSE, 500, FALSE, FALSE, <<>>), Unparseable,
     BrokenPage(<<BaseCard>>), Page(<<>>), Page(<<NoLink, OnlyLink>>), LongPage}
    \cup {Page(<<c>>) : c \in Cards}

AdapterInit ==
    /\ pc = "adapter"
    /\ run = 1
    /\ fn = 1
    /\ all_listings = <<>>
    /\ adapter_out = <<>>
    /\ scrape_log = <<>>
    /\ listings = <<>>
    /\ idx = 1
    /\ attempted = <<>>
    /\ errors = <<>>
    /\ step = NoStep
    /\ processed = <<>>
    /\ created = <<>>
    /\ notion = [u \in Urls |-> 0]
    /\ telegram_token \in {<<>>, <<"123:abc">>}
    /\ telegram_chat_id \in {<<>>, <<"42">>}
    /\ telegram_calls = 0
    /\ telegram_sent = <<>>
    /\ html = <<>>
    /\ email_written = FALSE

\* one adapter called on one page, outside run()
AdapterCall ==
    /\ pc = "adapter"
    /\ scrape_log = <<>>
    /\ \E k \in 1..Len(Scrapers) : \E page \in Pages :
         scrape_log' = <<call(k, page)>>
    /\ UNCHANGED <<pc, run, fn, all_listings, adapter_out, listings, idx, attempted,
                   errors, step, processed, created, notion, telegram_token,
                   telegram_chat_id, telegram_calls, telegram_sent, html, email_written>>

AdapterSpec == AdapterInit /\ [][AdapterCall]_vars

(* ============================== claims ================================ *)
AfterSample == pc \in {"dedupe", "process", "email", "done"}
AfterDedupe == pc \in {"process", "email", "done"}
AfterLoop == pc \in {"email", "done"}

UrlsOf(seq) == [k \in 1..Len(seq) |-> seq[k].url]

\* the index of the first record of all that carries url u
FirstIndex(all, u) ==
    CHOOSE i \in 1..Len(all) :
        all[i].url = u /\ \A j \in 1..(i - 1) : all[j].url # u

\* C1: once run() has deduplicated, listings holds exactly one record for
\* each url of all_listings, that record is the first one of all_listings
\* with the url, and the records stand in the order of those first ones.
C1_DedupFirstWins ==
    AfterDedupe =>
        /\ \A i \in 1..Len(all_listings) :
             Cardinality({j \in 1..Len(listings) :
                            listings[j].url = all_listings[i].url}) = 1
        /\ \A j \in 1..Len(listings) :
             /\ \E i \in 1..Len(all_listings) : all_listings[i].url = listings[j].url
             /\ listings[j] = all_listings[FirstIndex(all_listings, listings[j].url)]
        /\ \A j1, j2 \in 1..Len(listings) :
             j1 < j2 => FirstIndex(all_listings, listings[j1].url)
                        < FirstIndex(all_listings, listings[j2].url)

\* urls A, B, then A again under another title: two records are kept and A
\* keeps the first title
C1_Witness ==
    /\ AfterDedupe
    /\ Len(all_listings) = 3
    /\ all_listings[1].url = all_listings[3].url
    /\ all_listings[1].title # all_listings[3].title
    /\ all_listings[2].url # all_listings[1].url
    /\ Len(listings) = 2
    /\ listings[1].title = all_listings[1].title

\* the create call of the last turn reached Notion and Notion answered 200
StepStored ==
    /\ step.create # <<>>
    /\ step.create[1].nres # <<>>
    /\ ~step.create[1].nres[1].exc
    /\ step.create[1].nres[1].status_code = HTTP_OK

\* C2: no create request is sent for a url the database already holds, so
\* the database never holds two pages with the same url, over any number
\* of runs.
C2_NoDuplicateAcrossRuns ==
    /\ \A u \in Urls : notion[u] <= 1
    /\ (step.create # <<>> /\ step.create[1].request # <<>>)
         => notion[step.ad[1].url] = (IF StepStored THEN 1 ELSE 0)

\* C3: a listing whose analysis says not relevant and whose suburb is not a
\* target suburb gets no create request and is not in the output batch.
C3_IrrelevantSkipped ==
    (/\ step.analysis # <<>>
     /\ "lgbtq" \in DOMAIN step.analysis[1]
     /\ step.analysis[1]["lgbtq"] = FALSE
     /\ ~InList(step.ad[1].suburb, target_suburbs))
    => /\ step.create[1].request = <<>>
       /\ \A k \in 1..Len(processed) : processed[k].url # step.ad[1].url

\* C4: every Analysis has a score in 0..100, and so has every page sent to
\* Notion and every record of the output batch.
C4_ScoreInRange ==
    /\ step.analysis # <<>> =>
         /\ "score" \in DOMAIN step.analysis[1]
         /\ step.analysis[1]["score"] \in SCORE_MIN..SCORE_MAX
    /\ (step.create # <<>> /\ step.create[1].request # <<>>) =>
         step.create[1].request[1].score \in SCORE_MIN..SCORE_MAX
    /\ \A k \in 1..Len(processed) : processed[k].score \in SCORE_MIN..SCORE_MAX

ExpectedKeys == {"summary", "lgbtq", "nationalities", "tags", "score", "reasons"}

\* the request of the last turn failed: it raised, or was answered with
\* another status than 200, or its reply did not parse
RequestFailed ==
    /\ step.res # <<>>
    /\ \/ step.res[1].exc
       \/ step.res[1].status_code # HTTP_OK
       \/ ~step.res[1].parses

\* C5: when the request fails, or its reply lacks an expected key, the
\* Analysis is the fallback one: all six keys, no tags, the fallback marker
\* as its reasons.
C5_FailuresFallBack ==
    (RequestFailed \/ (step.res # <<>> /\ DOMAIN step.res[1].content # ExpectedKeys))
    => /\ DOMAIN step.analysis[1] = ExpectedKeys
       /\ step.analysis[1]["tags"] = <<>>
       /\ step.analysis[1]["reasons"] = <<"Fallback analysis used">>

\* text holds word somewhere
Contains(text, word) == \E pos \in 1..(Len(text) + 1) : StartsAt(text, pos, word)

\* phrases each of which one of the topical patterns matches
TopicalPhrases ==
    {"lgbt", "queer-friendly", "queer friendly", "queerfriendly", "queer house",
     "queerhouse", "gayshare", "gay share", "gay-share", "gay friendly",
     "gay-friendly", "lesbian friendly", "lesbian-friendly", "trans friendly",
     "trans-friendly", "rainbow home", "rainbow house"}

\* words one of which every topical pattern needs
TopicalStems == {"lgbt", "queer", "gay", "lesbian", "trans", "rainbow"}

\* for each listing of the model: what its text says, read off the text alone
TextFacts ==
    [l \in AnalysisInputs |->
       LET text == Lower(l.title \o " " \o l.description)
       IN  [phrase |-> \E w \in TopicalPhrases : Contains(text, w),
            stem |-> \E w \in TopicalStems : Contains(text, w),
            queer_friendly |-> Contains(Lower(l.description), "queer-friendly")]]

\* C6: the fallback Analysis has relevant = the text matches a topical
\* pattern and score = 50 + 25 if relevant + 10 if the suburb is a target
\* suburb, one of 50, 60, 75, 85; "queer-friendly" in Newtown under HTTP 500
\* gives relevant and 85.
C6_FallbackScore ==
    RequestFailed =>
        LET a == step.analysis[1]
            ad == step.ad[1]
            facts == TextFacts[analysis_input(ad)]
        IN  /\ a.score \in {50, 60, 75, 85}
            /\ a.score = 50 + (IF a.lgbtq THEN 25 ELSE 0)
                         + (IF ad.suburb \in {"Surry Hills", "Darlinghurst", "Newtown"}
                            THEN 10 ELSE 0)
            /\ facts.phrase => a.lgbtq
            /\ a.lgbtq => facts.stem
            /\ (facts.queer_friendly /\ ad.suburb = "Newtown") =>
                 (a.lgbtq /\ a.score = 85)

C6_Witness ==
    /\ RequestFailed
    /\ ~step.res[1].exc
    /\ step.res[1].status_code = 500
    /\ step.ad[1].suburb = "Newtown"
    /\ TextFacts[analysis_input(step.ad[1])].queer_friendly
    /\ step.analysis[1].lgbtq
    /\ step.analysis[1].score = 85

\* C7: an exception in one turn of the loop ends that turn only: run()
\* does not end by an exception, and the listings are attempted one after
\* the other in dedup order, all of them once the loop is over.
C7_FaultIsolation ==
    /\ pc # "crashed"
    /\ pc = "process" => attempted = UrlsOf(SubSeq(listings, 1, idx - 1))
    /\ AfterLoop => attempted = UrlsOf(listings)
    /\ \A k \in 1..Len(errors) : \E j \in 1..Len(attempted) : attempted[j] = errors[k]

\* the first listing raised and the second one was attempted all the same
C7_Witness ==
    /\ Len(listings) = 2
    /\ Len(attempted) = 2
    /\ Len(errors) >= 1
    /\ errors[1] = listings[1].url

\* C8, as stated: every run invokes the notifier and then renders the
\* digest of its batch, and ends without an exception.
C8_AlwaysNotifies ==
    /\ pc # "crashed"
    /\ pc = "done" =>
         /\ telegram_calls = 1
         /\ html # <<>>
         /\ UrlsOf(html[1]) = UrlsOf(processed)

\* C8, amended: run() never ends by an exception and always goes on to its
\* end; before the loop is over nothing is notified or rendered; after it
\* the notifier is invoked once and then the digest of the first 12 records
\* is rendered when the batch is not empty, and neither happens when it is.
C8_ReachesNotifyStage ==
    /\ pc # "crashed"
    /\ pc # "done" => ENABLED Next
    /\ ~AfterLoop => telegram_calls = 0 /\ html = <<>>
    /\ pc = "email" => html = <<>>
    /\ AfterLoop => telegram_calls = (IF processed = <<>> THEN 0 ELSE 1)
    /\ pc = "done" =>
         IF processed = <<>> THEN html = <<>>
         ELSE /\ html # <<>>
              /\ UrlsOf(html[1]) = UrlsOf(Slice(processed, EMAIL_MAX_ADS))

\* a partial batch: two listings, one persisted, notified and rendered
C8_Witness ==
    /\ pc = "done"
    /\ Len(listings) = 2
    /\ Len(processed) = 1
    /\ telegram_calls = 1
    /\ html # <<>>

SampleSets == {scrape_sample_listings(p) : p \in SamplePrices}

\* C9: the sample set is what run() processes exactly when the adapters
\* returned nothing; otherwise what they returned is processed and no
\* sample listing with it.
C9_SampleOnlyWhenEmpty ==
    /\ AfterSample =>
         IF adapter_out = <<>> THEN all_listings \in SampleSets
         ELSE all_listings = adapter_out
    /\ AfterDedupe =>
         IF adapter_out = <<>> THEN listings \in SampleSets
         ELSE \A k \in 1..Len(listings) :
                /\ \A sample \in SampleSets : listings[k] # sample[1]
                /\ \E i \in 1..Len(adapter_out) : adapter_out[i] = listings[k]
    /\ AfterLoop => (adapter_out = <<>> <=> attempted = <<SampleUrl>>)

C9_Witness ==
    /\ pc = "done"
    /\ adapter_out = <<>>
    /\ attempted = <<SampleUrl>>
    /\ step.ad[1].source = "Flatmates"

\* C10: create_notion_page never raises, and returns true exactly when
\* Notion answered the create request with 200.
C10_CreateNeverRaises ==
    step.create # <<>> =>
        /\ ~step.create[1].exc
        /\ step.create[1].ret <=> StepStored

(* ----------------------------- adapters ------------------------------- *)
\* the site an entry of scrape_log was called for
SiteOf(c) == Sites[CHOOSE k \in 1..Len(Scrapers) : Scrapers[k] = c.fn]

\* the page could not be had, or its markup made the adapter's reading raise
FetchFailed(page) ==
    page.exc \/ page.status_code # HTTP_OK \/ page.parse_exc \/ page.select_exc

\* C11, as stated: an adapter never raises to its caller, and returns the
\* empty sequence when the response is not 200, when the request fails and
\* when parsing the markup or reading from it raises.
C11_AdapterFailSoft ==
    \A i \in 1..Len(scrape_log) :
        /\ ~scrape_log[i].exc
        /\ FetchFailed(scrape_log[i].page) => scrape_log[i].ret = <<>>

HasLink(c) == c.href # <<>>

\* the cards of a page that an adapter may read
CardsRead(page) == SubSeq(page.cards, 1, Min(Len(page.cards), MAX_PER_SITE))

\* ad is the record of card c: what the card holds, and for what it lacks
\* the placeholder title, no price, "Sydney", no image
RecordOf(site, c, ad) ==
    /\ ad.title = (IF c.heading # "" THEN c.heading
                   ELSE IF c.a_text # "" THEN c.a_text
                   ELSE site.placeholder)
    /\ ad.description = c.p
    /\ ad.suburb = (IF c.suburb = "" THEN "Sydney" ELSE c.suburb)
    /\ c.price = "" => ad.price_per_week = <<>>
    /\ c.img = <<>> => ad.image_url = <<>>
    /\ ad.source = site.source
    /\ ad.date_posted = Today

\* C12, as stated: every card among the first MAX_PER_SITE of a page gives
\* one record, also a card that lacks its title, link, price, locality or
\* thumbnail, which gets the default instead.
C12_EveryCardYieldsListing ==
    \A i \in 1..Len(scrape_log) :
        LET c == scrape_log[i]
            read == CardsRead(c.page)
        IN  ~FetchFailed(c.page) =>
              /\ Len(c.ret) = Len(read)
              /\ \A j \in 1..Len(read) : RecordOf(SiteOf(c), read[j], c.ret[j])

\* C12, amended: the cards with a link among the first MAX_PER_SITE of a
\* page give one record each, in card order, with the default for a missing
\* title, price, locality or thumbnail; a card without a link gives none.
C12_LinkedCardsYieldListings ==
    \A i \in 1..Len(scrape_log) :
        LET c == scrape_log[i]
            linked == SelectSeq(CardsRead(c.page), HasLink)
        IN  ~FetchFailed(c.page) =>
              /\ Len(c.ret) = Len(linked)
              /\ \A j \in 1..Len(linked) : RecordOf(SiteOf(c), linked[j], c.ret[j])

\* a page of two cards, the first without a link, the second with nothing
\* but its link: one record, made of the defaults
C12_Witness ==
    \E i \in 1..Len(scrape_log) :
        /\ scrape_log[i].page = Page(<<NoLink, OnlyLink>>)
        /\ Len(scrape_log[i].ret) = 1
        /\ scrape_log[i].ret[1].title = SiteOf(scrape_log[i]).placeholder
        /\ scrape_log[i].ret[1].price_per_week = <<>>
        /\ scrape_log[i].ret[1].suburb = "Sydney"
        /\ scrape_log[i].ret[1].image_url = <<>>

(* --------------------------- _price_to_int ---------------------------- *)
\* what the price texts of the cards say, read by hand
PriceFacts ==
    [t \in PriceTexts \cup {"$250 pw"} |->
        CASE t = "$250 pw" -> <<250>>
          [] t = "$1,250/week" -> <<1250>>
          [] t = "$0.00" -> <<0>>
          [] t = "12345" -> <<1234>>
          [] t = "5 rooms from $85" -> <<85>>
          [] OTHER -> <<>>]

\* two digits stand next to each other in the text once its commas are out
RECURSIVE HasDigitPair(_, _)
HasDigitPair(text, seen) ==
    IF text = "" THEN FALSE
    ELSE LET c == CharAt(text, 1)
             rest == SubSeq(text, 2, Len(text))
         IN  IF c = "," THEN HasDigitPair(rest, seen)
             ELSE IF c \in DigitChars THEN seen \/ HasDigitPair(rest, TRUE)
             ELSE HasDigitPair(rest, FALSE)

\* the price text of the one card of a page, next to the price of its record
PricesRead ==
    {<<scrape_log[i].page.cards[1].price, scrape_log[i].ret[1].price_per_week>> :
        i \in {j \in 1..Len(scrape_log) : /\ ~FetchFailed(scrape_log[j].page)
                                         /\ Len(scrape_log[j].page.cards) = 1
                                         /\ Len(scrape_log[j].ret) = 1}}

\* what C13 and its amended form share: the price is the first run of 2 to
\* 4 digits of the text without its commas, absent when the text is empty
\* or has no such run, and at most 9999
PriceRead(text, price) ==
    /\ price = PriceFacts[text]
    /\ price = <<>> <=> ~HasDigitPair(text, FALSE)
    /\ text = "$1,250/week" => price = <<1250>>
    /\ text = "Ask" => price = <<>>
    /\ price # <<>> => price[1] <= 9999

\* C13, as stated: with the above, a price that is not absent is at least 10.
C13_PriceInRange ==
    \A r \in PricesRead : PriceRead(r[1], r[2]) /\ (r[2] # <<>> => r[2][1] >= 10)

\* C13, amended: with the above, a price that is not absent lies in
\* [0, 9999]: a run of zeros is a match and gives 0.
C13_PriceFirstDigitRun ==
    \A r \in PricesRead : PriceRead(r[1], r[2]) /\ (r[2] # <<>> => r[2][1] \in 0..9999)

\* the card priced "$0.00" gave a record priced 0
C13_Witness == <<"$0.00", <<0>>>> \in PricesRead

(* ------------------------ url normalization --------------------------- *)
IsAbsolute(u) == StartsWith(u, "https://") \/ StartsWith(u, "http://")

\* value as the claim normalizes it for a site
Normalized(site, value) ==
    IF StartsWith(value, "//") THEN "https:" \o value
    ELSE IF StartsWith(value, "/") THEN site.origin \o value
    ELSE value

\* the image source an adapter reads from an img node: data-src before src,
\* except for gayshare, which reads src alone
ImageSource(site, img) ==
    IF site.data_src /\ Truthy(img.data_src) THEN img.data_src ELSE img.src

\* C14, as stated: the url of a record is the card's href, and its image the
\* card's image source, with "https:" put before a protocol-relative value
\* and the site's origin before a root-relative one; both are absolute.
C14_UrlsAbsolute ==
    \A i \in 1..Len(scrape_log) :
        LET c == scrape_log[i]
            linked == SelectSeq(CardsRead(c.page), HasLink)
        IN  ~FetchFailed(c.page) =>
              \A j \in 1..Len(c.ret) :
                 /\ c.ret[j].url = Normalized(SiteOf(c), linked[j].href[1])
                 /\ IsAbsolute(c.ret[j].url)
                 /\ linked[j].img # <<>> /\ Truthy(ImageSource(SiteOf(c), linked[j].img[1]))
                      => c.ret[j].image_url
                           = <<Normalized(SiteOf(c), ImageSource(SiteOf(c), linked[j].img[1])[1])>>
                 /\ c.ret[j].image_url # <<>> => IsAbsolute(c.ret[j].image_url[1])

(* --------------------------- chat notifier ---------------------------- *)
\* C15, as stated: no request is sent when the batch is empty or when the
\* bot token or the chat id is missing; otherwise the notifier sends one
\* message, which lists the first TELEGRAM_MAX_ADS records of the batch in
\* batch order.
C15_NotifierGuard ==
    /\ (telegram_token = <<>> \/ telegram_chat_id = <<>> \/ processed = <<>>)
         => telegram_sent = <<>>
    /\ (AfterLoop /\ telegram_token # <<>> /\ telegram_chat_id # <<>>
          /\ processed # <<>>)
         => /\ Len(telegram_sent) = 1
            /\ UrlsOf(telegram_sent[1].text.ads)
                 = UrlsOf(Slice(processed, TELEGRAM_MAX_ADS))

(* ---------------------------- aggregator ------------------------------ *)
\* what the calls of log gave, one after the other; a call that raised
\* gave nothing
RECURSIVE Contributions(_)
Contributions(log) ==
    IF log = <<>> THEN <<>>
    ELSE Contributions(SubSeq(log, 1, Len(log) - 1))
         \o (IF log[Len(log)].exc THEN <<>> ELSE log[Len(log)].ret)

InAdapterLoop == pc \in {"scrape", "sample"}

\* C16: while the adapter loop runs, the adapters called so far are the
\* first ones of gayshare, gumtree, flatmates, flatmate finders, roomgo, in
\* that order and once each, whether or not one of them raised; the
\* aggregate is what they returned, one after the other, with nothing for
\* one that raised; when the loop is over all five were called.
C16_AdaptersInOrder ==
    InAdapterLoop =>
      /\ Len(scrape_log) = fn - 1
      /\ \A i \in 1..Len(scrape_log) : scrape_log[i].fn = Scrapers[i]
      /\ all_listings = Contributions(scrape_log)
      /\ \A i \in 1..Len(scrape_log) :
            scrape_log[i].exc =>
              \A j \in 1..Len(all_listings) :
                 all_listings[j].source # SiteOf(scrape_log[i]).source
      /\ pc = "sample" => Len(scrape_log) = Len(Scrapers)
      /\ pc = "scrape" => fn <= Len(Scrapers) /\ ENABLED Scrape

\* gayshare raised, and gumtree and roomgo, called after it, gave the
\* aggregate its two listings
C16_Witness ==
    /\ pc = "sample"
    /\ scrape_log[1].exc
    /\ Len(scrape_log[2].ret) = 1
    /\ Len(scrape_log[5].ret) = 1
    /\ all_listings = scrape_log[2].ret \o scrape_log[5].ret

(* --------------------------- output batch ----------------------------- *)
\* url and score of the records of a batch
Scored(batch) == [k \in 1..Len(batch) |-> [url |-> batch[k].url, score |-> batch[k].score]]

\* the places in listings of the urls of a batch
Places(batch) ==
    [k \in 1..Len(batch) |-> CHOOSE i \in 1..Len(listings) : listings[i].url = batch[k].url]

\* C17: at every point of run() the batch holds, in the order they were met,
\* the listings whose create_notion_page returned True, each with the score
\* of the analysis made for it: no url twice, the urls in dedup order, none
\* of them a url whose step raised; the last listing handled is the last
\* record of the batch when its create call returned True and is not in the
\* batch otherwise; the message and the digest are made of this batch.
C17_BatchIsPersisted ==
    /\ Scored(processed) = created
    /\ \A k \in 1..Len(processed) :
          /\ \E i \in 1..Len(listings) : listings[i].url = processed[k].url
          /\ \A j \in 1..Len(errors) : errors[j] # processed[k].url
    /\ \A k, m \in 1..Len(processed) : k < m => Places(processed)[k] < Places(processed)[m]
    /\ step.create # <<>> =>
          IF ~step.create[1].exc /\ step.create[1].ret
          THEN /\ processed # <<>>
               /\ processed[Len(processed)]
                    = batch_entry(step.ad[1], step.analysis[1])
          ELSE \A k \in 1..Len(processed) : processed[k].url # step.ad[1].url
    /\ \A k \in 1..Len(telegram_sent) :
          /\ telegram_sent[k].text.count = Len(processed)
          /\ UrlsOf(telegram_sent[k].text.ads) = UrlsOf(Slice(processed, TELEGRAM_MAX_ADS))
    /\ html # <<>> => UrlsOf(html[1]) = UrlsOf(Slice(processed, EMAIL_MAX_ADS))

\* two listings: the step of the first raised, the second was persisted;
\* the batch of one was notified and rendered
C17_Witness ==
    /\ pc = "done"
    /\ Len(listings) = 2
    /\ errors = <<listings[1].url>>
    /\ Len(processed) = 1
    /\ processed[1].url = listings[2].url
    /\ step.create # <<>> /\ step.create[1].ret
    /\ telegram_sent # <<>>
    /\ html # <<>>
====
